---- MODULE Spec2Model ----
(***************************************************************************)
(* The strategy-optimization report, GET /optimize/:userId                 *)
(* (src/src/routes/sync.ts, lines 227-408), over the Trade collection of   *)
(* src/src/models/Trade.ts.                                                *)
(*                                                                         *)
(* Numbers.  Outcomes are integers.  What the store computes (winRate,     *)
(* avgOutcome) is kept as a reduced fraction.  What the handler computes   *)
(* is computed as JavaScript does, in doubles: each sum, difference and    *)
(* product is the exact result rounded to 53 significant bits.  The        *)
(* correlation numerator / Math.sqrt(product) is kept as the pair of its   *)
(* numerator and product, and compared (with 0, 1, -0.2) as that exact     *)
(* quotient.                                                               *)
(*                                                                         *)
(* Time.  The clock and the trade dates count seconds where the code       *)
(* counts milliseconds; the handler only compares a tradeDate with now     *)
(* minus the window, so the unit does not matter to it.                    *)
(***************************************************************************)
EXTENDS Integers, Sequences, FiniteSets, Bags, TLC

VARIABLES store, now, pc, req, reply, response, answered, queries, sent,
          tokenStore, adapters, calls, sync

vars == <<store, now, pc, req, reply, response, answered, queries, sent,
          tokenStore, adapters, calls, sync>>

\* the state of the sync service: TokenService.tokenStore,
\* AdapterRegistry.adapters, the calls made to adapters, and the call of
\* the service being served
syncVars == <<tokenStore, adapters, calls, sync>>

(***************************************************************************)
(* Bounds of the model.                                                    *)
(***************************************************************************)
\* trades in the store of the report specification (SpecReport)
MaxReportTrades == 4
\* trades in the store of the request specification (Spec)
MaxTrades == 2
\* trades in the store of the rounding specification (SpecNumeric)
MaxNumericTrades == 3
\* trades in the store of the specification of concurrent requests
\* (SpecConcurrent)
MaxConcurrentTrades == 2
\* trades in the store of the specification of risk levels (SpecRisk)
MaxRiskTrades == 3
\* trades in the store of the specification with writes (SpecWrites)
MaxStored == 2
\* clock ticks after the initial instant
MaxTicks == 1

\* the adapter calls after which no further request is made
MaxCalls == 2

\* the raw trades an adapter returns to one call of fetchTrades
MaxRawTrades == 2

(***************************************************************************)
(* Program constants.                                                      *)
(***************************************************************************)
\* const days = 30
days == 30

\* the values of `correlation`: null, NaN, or a number
Null == [kind |-> "null"]
NaN == [kind |-> "NaN"]

(***************************************************************************)
(* Exact arithmetic.                                                       *)
(***************************************************************************)
Abs(a) == IF a < 0 THEN -a ELSE a

RECURSIVE Gcd(_, _)
Gcd(a, b) == IF b = 0 THEN a ELSE Gcd(b, a % b)

\* the number a / b, b > 0, as a reduced fraction
Ratio(a, b) ==
  LET g == Gcd(Abs(a), b)
  IN [num |-> a \div g, den |-> b \div g]

RatioLess(p, q) == p.num * q.den < q.num * p.den

Half == Ratio(1, 2)
Zero == Ratio(0, 1)
One == Ratio(1, 1)

(***************************************************************************)
(* JavaScript Number arithmetic on integers.  A Number is an IEEE 754      *)
(* double; the handler's sums and products are of integers, so each is the *)
(* exact integer result rounded to 53 significant bits, ties to even.      *)
(* A magnitude is kept exactly, whatever its size, as a sequence of limbs,  *)
(* least significant first, without leading zero limbs.                    *)
(***************************************************************************)
Base == 2^15

\* significant bits of a double: 52 stored and the implicit leading one
Precision == 52 + 1

RECURSIVE BigOf(_)
BigOf(n) == IF n = 0 THEN <<>> ELSE <<n % Base>> \o BigOf(n \div Base)

RECURSIVE BigNorm(_)
BigNorm(a) ==
  IF a = <<>> THEN <<>>
  ELSE IF a[Len(a)] = 0 THEN BigNorm(SubSeq(a, 1, Len(a) - 1))
  ELSE a

RECURSIVE BigAddCarry(_, _, _)
BigAddCarry(a, b, carry) ==
  IF a = <<>> /\ b = <<>> THEN (IF carry = 0 THEN <<>> ELSE <<carry>>)
  ELSE LET x == (IF a = <<>> THEN 0 ELSE Head(a))
                + (IF b = <<>> THEN 0 ELSE Head(b)) + carry
       IN <<x % Base>> \o BigAddCarry(IF a = <<>> THEN <<>> ELSE Tail(a),
                                      IF b = <<>> THEN <<>> ELSE Tail(b),
                                      x \div Base)

BigAdd(a, b) == BigAddCarry(a, b, 0)

RECURSIVE BigSubBorrow(_, _, _)
BigSubBorrow(a, b, borrow) ==
  IF a = <<>> THEN <<>>
  ELSE LET x == Head(a) - (IF b = <<>> THEN 0 ELSE Head(b)) - borrow
       IN <<x % Base>> \o BigSubBorrow(Tail(a),
                                       IF b = <<>> THEN <<>> ELSE Tail(b),
                                       IF x < 0 THEN 1 ELSE 0)

\* a - b, for a >= b
BigSub(a, b) == BigNorm(BigSubBorrow(a, b, 0))

RECURSIVE BigCmpFrom(_, _, _)
BigCmpFrom(a, b, i) ==
  IF i = 0 THEN 0
  ELSE IF a[i] # b[i] THEN (IF a[i] < b[i] THEN -1 ELSE 1)
  ELSE BigCmpFrom(a, b, i - 1)

\* -1, 0 or 1 as a is less than, equal to or greater than b
BigCmp(a, b) ==
  IF Len(a) # Len(b) THEN (IF Len(a) < Len(b) THEN -1 ELSE 1)
  ELSE BigCmpFrom(a, b, Len(a))

RECURSIVE BigMulSmallCarry(_, _, _)
BigMulSmallCarry(a, d, carry) ==
  IF a = <<>> THEN (IF carry = 0 THEN <<>> ELSE <<carry>>)
  ELSE LET x == Head(a) * d + carry
       IN <<x % Base>> \o BigMulSmallCarry(Tail(a), d, x \div Base)

\* a * d, for 0 <= d < Base
BigMulSmall(a, d) == IF d = 0 THEN <<>> ELSE BigMulSmallCarry(a, d, 0)

RECURSIVE BigMul(_, _)
BigMul(a, b) ==
  IF a = <<>> \/ b = <<>> THEN <<>>
  ELSE BigAdd(BigMulSmall(a, Head(b)),
              IF Tail(b) = <<>> THEN <<>> ELSE <<0>> \o BigMul(a, Tail(b)))

RECURSIVE BigDivSmallFrom(_, _, _, _)
\* the quotient limbs of a by d, from limb i down, with remainder rem so far
BigDivSmallFrom(a, d, i, rem) ==
  IF i = 0 THEN <<>>
  ELSE LET x == rem * Base + a[i]
       IN BigDivSmallFrom(a, d, i - 1, x % d) \o <<x \div d>>

\* a \div d, for 0 < d < Base
BigDivSmall(a, d) == BigNorm(BigDivSmallFrom(a, d, Len(a), 0))

RECURSIVE SmallBitLen(_)
SmallBitLen(n) == IF n = 0 THEN 0 ELSE 1 + SmallBitLen(n \div 2)

BitLen(a) == IF a = <<>> THEN 0 ELSE 15 * (Len(a) - 1) + SmallBitLen(a[Len(a)])

\* a \div 2^k
BigShr(a, k) ==
  LET whole == k \div 15
  IN IF whole >= Len(a) THEN <<>>
     ELSE BigDivSmall(SubSeq(a, whole + 1, Len(a)), 2^(k % 15))

\* a * 2^k
BigShl(a, k) ==
  IF a = <<>> THEN <<>>
  ELSE [i \in 1..(k \div 15) |-> 0] \o BigMulSmall(a, 2^(k % 15))

\* whether quotient q with remainder rem rounds up: rem is more than half
\* a unit of q, or exactly half and q is odd
roundsUp(rem, half, q) ==
  \/ BigCmp(rem, half) = 1
  \/ BigCmp(rem, half) = 0 /\ q[1] % 2 = 1

\* a, whose k low bits are dropped to leave q, rounded to a multiple of 2^k
RoundFrom(a, k, q) ==
  BigShl(IF roundsUp(BigSub(a, BigShl(q, k)), BigShl(<<1>>, k - 1), q)
         THEN BigAdd(q, <<1>>) ELSE q, k)

\* a rounded to a multiple of 2^k
RoundBy(a, k) == RoundFrom(a, k, BigShr(a, k))

\* the magnitude a rounded to Precision significant bits, ties to even
RoundToDouble(a) ==
  IF BitLen(a) <= Precision THEN a ELSE RoundBy(a, BitLen(a) - Precision)

\* the Number of the integer n
NumberOf(n) == [neg |-> n < 0, mag |-> BigOf(IF n < 0 THEN -n ELSE n)]

\* the Number of magnitude m, negative if neg and not zero
Signed(neg, m) == [neg |-> neg /\ m # <<>>, mag |-> m]

\* x + y for x and y of opposite signs, cmp comparing their magnitudes
NumDiff(x, y, cmp) ==
  IF cmp = 0 THEN Signed(FALSE, <<>>)
  ELSE IF cmp = 1 THEN Signed(x.neg, RoundToDouble(BigSub(x.mag, y.mag)))
  ELSE Signed(y.neg, RoundToDouble(BigSub(y.mag, x.mag)))

\* x + y
NumAdd(x, y) ==
  IF x.neg = y.neg THEN Signed(x.neg, RoundToDouble(BigAdd(x.mag, y.mag)))
  ELSE NumDiff(x, y, BigCmp(x.mag, y.mag))

\* x - y
NumSub(x, y) == NumAdd(x, Signed(~y.neg, y.mag))

\* x * y
NumMul(x, y) == Signed(x.neg # y.neg, RoundToDouble(BigMul(x.mag, y.mag)))

(***************************************************************************)
(* The Trade collection.  A document is the record of the fields the       *)
(* pipeline reads; the collection is a bag of them (two documents may      *)
(* agree on every field).                                                  *)
(***************************************************************************)
ObjectIds == {"u1", "u2"}
MalformedIds == {"not-an-id"}
RequestIds == ObjectIds \cup MalformedIds

\* the instant of the first request: its window starts at instant 1
Now0 == days * 24 * 60 * 60 + 1

\* windowStart: setDate(getDate() - days) moves the date back by `days`
\* calendar days, which are 24 hours each where the local clock does not
\* change in between
windowStartAt(t) == t - days * 24 * 60 * 60

RECURSIVE BagsUpTo(_, _)
BagsUpTo(D, n) ==
  IF n = 0 THEN {EmptyBag}
  ELSE LET S == BagsUpTo(D, n - 1)
       IN S \cup {b (+) SetToBag({t}) : b \in S, t \in D}

RECURSIVE SumOver(_, _)
\* the sum of g[d] over the elements d of the set S
SumOver(S, g) ==
  IF S = {} THEN 0
  ELSE LET d == CHOOSE e \in S : TRUE
       IN g[d] + SumOver(S \ {d}, g)

\* the sequences that list every element of the set S once
Orderings(S) ==
  {f \in [1..Cardinality(S) -> S] :
     \A i, j \in 1..Cardinality(S) : i # j => f[i] # f[j]}

(***************************************************************************)
(* Strings are compared by $sort as sequences of character codes; the      *)
(* null that stands for a missing field sorts before every string.         *)
(***************************************************************************)
\* the riskLevel of a document stored without the field (the schema requires
\* it, a writer that bypasses the schema need not supply it)
Missing == "(missing)"

CharCodes(str) ==
  CASE str = "high" -> <<104, 105, 103, 104>>
    [] str = "low" -> <<108, 111, 119>>
    [] str = "medium" -> <<109, 101, 100, 105, 117, 109>>
    [] str = "extreme" -> <<101, 120, 116, 114, 101, 109, 101>>
    [] str = Missing -> <<>>

RECURSIVE LexLess(_, _)
LexLess(a, b) ==
  IF b = <<>> THEN FALSE
  ELSE IF a = <<>> THEN TRUE
  ELSE IF Head(a) # Head(b) THEN Head(a) < Head(b)
  ELSE LexLess(Tail(a), Tail(b))

StringLess(s, t) == LexLess(CharCodes(s), CharCodes(t))

(***************************************************************************)
(* The aggregation pipeline (lines 240-326), evaluated by the store.       *)
(***************************************************************************)
\* matchStage with $gt for $gte
matchStageExclusive(userObjectId, windowStart) ==
  [d \in {e \in BagToSet(store) :
            e.userId = userObjectId /\ e.tradeDate > windowStart} |-> store[d]]

\* $match: { userId: userObjectId, tradeDate: { $gte: windowStart } }
matchStage(userObjectId, windowStart) ==
  [d \in {e \in BagToSet(store) :
            e.userId = userObjectId /\ e.tradeDate >= windowStart} |-> store[d]]

\* riskScore with 0 for the default, the value of `t.riskScore ?? 0`
riskScoreZeroDefault(riskLevel) ==
  CASE riskLevel = "low" -> 1
    [] riskLevel = "medium" -> 2
    [] riskLevel = "high" -> 3
    [] OTHER -> 0

\* $project riskScore: the $switch on riskLevel with its default
riskScore(riskLevel) ==
  CASE riskLevel = "low" -> 1
    [] riskLevel = "medium" -> 2
    [] riskLevel = "high" -> 3
    [] OTHER -> 2

\* winCount with a win read off the sign of the outcome
winCountByOutcome(d) == IF d.outcome > 0 THEN 1 ELSE 0

\* $cond on win inside the $sum of the byStrategy $group
winCount(d) == IF d.win = TRUE THEN 1 ELSE 0

\* $group by strategyId and the $project that follows it
strategyGroups(M) ==
  {LET G == {d \in BagToSet(M) : d.strategyId = s}
       total == SumOver(G, M)
       wins == SumOver(G, [d \in G |-> winCount(d) * M[d]])
   IN [strategyId |-> s, total |-> total, wins |-> wins,
       winRate |-> IF total > 0 THEN Ratio(wins, total) ELSE Zero]
   : s \in {d.strategyId : d \in BagToSet(M)}}

\* { $sort: { winRate: 1 } }: ascending; the order of equal keys is the store's
sortByWinRate(S) ==
  {f \in Orderings(S) :
     \A i, j \in 1..Len(f) : i < j => ~RatioLess(f[j].winRate, f[i].winRate)}

\* riskGroups with count: { $sum: "$riskScore" } for count: { $sum: 1 }
riskGroupsSummingScore(M) ==
  {LET G == {d \in BagToSet(M) : d.riskLevel = r}
       count == SumOver(G, M)
   IN [riskLevel |-> r,
       avgOutcome |-> Ratio(SumOver(G, [d \in G |-> d.outcome * M[d]]), count),
       count |-> count * riskScore(r)]
   : r \in {d.riskLevel : d \in BagToSet(M)}}

\* $group by riskLevel and the $project that follows it
riskGroups(M) ==
  {LET G == {d \in BagToSet(M) : d.riskLevel = r}
       count == SumOver(G, M)
   IN [riskLevel |-> r,
       avgOutcome |-> Ratio(SumOver(G, [d \in G |-> d.outcome * M[d]]), count),
       count |-> count]
   : r \in {d.riskLevel : d \in BagToSet(M)}}

\* sortByRiskLevel by the rank of the risk, low before medium before high
sortByRiskLevelSemantic(S) ==
  CHOOSE f \in Orderings(S) :
    \A i, j \in 1..Len(f) :
      i < j => riskScore(f[i].riskLevel) < riskScore(f[j].riskLevel)

\* { $sort: { riskLevel: 1 } }: the keys are distinct, so the order is unique
sortByRiskLevel(S) ==
  CHOOSE f \in Orderings(S) :
    \A i, j \in 1..Len(f) : i < j => StringLess(f[i].riskLevel, f[j].riskLevel)

\* the perTrade $project: riskScore and outcome of a matched document
perTradeEntry(d) == [riskScore |-> riskScore(d.riskLevel), outcome |-> d.outcome]

RECURSIVE oneOrder(_)
\* the documents of bag M, listed in one order
oneOrder(M) ==
  IF M = EmptyBag THEN <<>>
  ELSE LET d == CHOOSE e \in BagToSet(M) : TRUE
       IN <<d>> \o oneOrder(M (-) SetToBag({d}))

RECURSIVE allOrders(_)
\* the documents of bag M, listed in every order
allOrders(M) ==
  IF M = EmptyBag THEN {<<>>}
  ELSE UNION {{<<d>> \o rest : rest \in allOrders(M (-) SetToBag({d}))} :
                d \in BagToSet(M)}

\* no sum of the handler over these documents can round: each stays below
\* 2^16 * 2^16 * 2^16, so the order of the documents does not matter to it
sumsAreExact(M) ==
  /\ BagCardinality(M) <= 2^16
  /\ \A d \in BagToSet(M) : Abs(d.outcome) <= 2^16

\* the perTrade facet.  The matched documents come in the collection's
\* order, which the pipeline does not fix: every order is possible.  Where
\* the order cannot matter to the handler one order stands for all.
perTradeFacet(M) ==
  {[i \in 1..Len(docs) |-> perTradeEntry(docs[i])] :
     docs \in IF sumsAreExact(M) THEN {oneOrder(M)} ELSE allOrders(M)}

\* the documents the $facet stage can return for the matched trades
facetResults(M) ==
  {[byStrategy |-> bs, byRisk |-> sortByRiskLevel(riskGroups(M)),
    perTrade |-> pt] :
     bs \in sortByWinRate(strategyGroups(M)), pt \in perTradeFacet(M)}

(***************************************************************************)
(* The handler's own computation (lines 330-389).                          *)
(***************************************************************************)
\* a validation that accepts every string
isValidLax(userId) == userId \in RequestIds

\* Types.ObjectId.isValid(userId)
isValid(userId) == userId \in ObjectIds

\* const [result] = await Trade.aggregate(pipeline); result?.byStrategy ?? []
byStrategyOf(docs) == IF docs = <<>> THEN <<>> ELSE docs[1].byStrategy

\* result?.byRisk ?? []
byRiskOf(docs) == IF docs = <<>> THEN <<>> ELSE docs[1].byRisk

\* result?.perTrade ?? []
perTradeOf(docs) == IF docs = <<>> THEN <<>> ELSE docs[1].perTrade

\* isUnderperforming with the test winRate <= 0.5
isUnderperformingInclusive(s) == s.total > 0 /\ ~RatioLess(Half, s.winRate)

\* .filter((s) => s.total > 0 && s.winRate < 0.5)
isUnderperforming(s) == s.total > 0 /\ RatioLess(s.winRate, Half)

\* byStrategy.filter(...).map((s) => ({ strategyId, winRate }))
underperformingOf(byStrategy) ==
  LET kept == SelectSeq(byStrategy, isUnderperforming)
  IN [i \in 1..Len(kept) |->
        [strategyId |-> kept[i].strategyId, winRate |-> kept[i].winRate]]

\* the body of the loop: the sums with x and y added (lines 359-365)
addTrade(sums, x, y) ==
  [sumX |-> NumAdd(sums.sumX, x),
   sumY |-> NumAdd(sums.sumY, y),
   sumXY |-> NumAdd(sums.sumXY, NumMul(x, y)),
   sumX2 |-> NumAdd(sums.sumX2, NumMul(x, x)),
   sumY2 |-> NumAdd(sums.sumY2, NumMul(y, y))]

RECURSIVE sumsOver(_, _)
\* the five sums after the first i entries of perTrade (lines 353-366)
sumsOver(perTrade, i) ==
  IF i = 0
  THEN [sumX |-> NumberOf(0), sumY |-> NumberOf(0), sumXY |-> NumberOf(0),
        sumX2 |-> NumberOf(0), sumY2 |-> NumberOf(0)]
  ELSE addTrade(sumsOver(perTrade, i - 1), NumberOf(perTrade[i].riskScore),
                NumberOf(perTrade[i].outcome))

\* n * sumXY - sumX * sumY
numerator(n, sums) ==
  NumSub(NumMul(n, sums.sumXY), NumMul(sums.sumX, sums.sumY))

\* n * sumX2 - sumX * sumX
denomLeft(n, sums) ==
  NumSub(NumMul(n, sums.sumX2), NumMul(sums.sumX, sums.sumX))

\* n * sumY2 - sumY * sumY
denomRight(n, sums) ==
  NumSub(NumMul(n, sums.sumY2), NumMul(sums.sumY, sums.sumY))

\* denominator === 0 ? null : numerator / denominator, where denominator is
\* Math.sqrt(product): NaN for a negative product (NaN is not === 0, and the
\* quotient by it is NaN), 0 for product 0
quotient(num, product) ==
  IF product.neg THEN NaN
  ELSE IF product.mag = <<>> THEN Null
  ELSE [kind |-> "number", numerator |-> num, product |-> product.mag]

\* the correlation from n and the sums (lines 367-371)
pearsonOf(n, sums) ==
  quotient(numerator(n, sums), NumMul(denomLeft(n, sums), denomRight(n, sums)))

\* the body of `if (n >= 2)` (lines 353-371)
pearson(perTrade) ==
  pearsonOf(NumberOf(Len(perTrade)), sumsOver(perTrade, Len(perTrade)))

\* -1, 0 or 1 as the square of the number c is less than, equal to or
\* greater than p / q
SquareCmp(c, p, q) ==
  BigCmp(BigMulSmall(BigMul(c.numerator.mag, c.numerator.mag), q),
         BigMulSmall(c.product, p))

\* correlationOf with correlation initialised to 0
correlationOfZeroInit(perTrade) ==
  IF Len(perTrade) >= 2 THEN pearson(perTrade)
  ELSE [kind |-> "number", numerator |-> NumberOf(0), product |-> BigOf(1)]

\* let correlation = null; if (n >= 2) { ... } (lines 350-372)
correlationOf(perTrade) ==
  IF Len(perTrade) >= 2 THEN pearson(perTrade) ELSE Null

\* isBelowThreshold with the test correlation <= -0.2
isBelowThresholdInclusive(correlation) ==
  /\ correlation.kind = "number"
  /\ correlation.numerator.neg
  /\ SquareCmp(correlation, 1, 25) >= 0

\* typeof correlation === "number" && correlation < -0.2
isBelowThreshold(correlation) ==
  /\ correlation.kind = "number"
  /\ correlation.numerator.neg
  /\ SquareCmp(correlation, 1, 25) = 1

\* lowRiskQualifies with the test count > 3
lowRiskQualifiesAboveThree(byRisk) ==
  LET hits == {i \in 1..Len(byRisk) : byRisk[i].riskLevel = "low"}
  IN /\ hits # {}
     /\ LET lowRisk == byRisk[CHOOSE i \in hits : \A j \in hits : i <= j]
        IN lowRisk.count > 3 /\ RatioLess(Zero, lowRisk.avgOutcome)

\* byRisk.find((r) => r.riskLevel === "low"), with the test made on it
lowRiskQualifies(byRisk) ==
  LET hits == {i \in 1..Len(byRisk) : byRisk[i].riskLevel = "low"}
  IN /\ hits # {}
     /\ LET lowRisk == byRisk[CHOOSE i \in hits : \A j \in hits : i <= j]
        IN lowRisk.count >= 3 /\ RatioLess(Zero, lowRisk.avgOutcome)

RefineLine(strategyId) == "Refine entry criteria for strategy " \o strategyId
IncreaseLine == "Increase position size for low-risk trades"
ReduceLine == "Reduce exposure to high-risk trades"

\* suggestionsOf with the last two rules in the other order
suggestionsOfSwapped(underperformingStrategies, byRisk, correlation) ==
  [i \in 1..Len(underperformingStrategies) |->
     RefineLine(underperformingStrategies[i].strategyId)]
  \o (IF isBelowThreshold(correlation) THEN <<ReduceLine>> ELSE <<>>)
  \o (IF lowRiskQualifies(byRisk) THEN <<IncreaseLine>> ELSE <<>>)

\* the suggestions, pushed in this order (lines 374-389)
suggestionsOf(underperformingStrategies, byRisk, correlation) ==
  [i \in 1..Len(underperformingStrategies) |->
     RefineLine(underperformingStrategies[i].strategyId)]
  \o (IF lowRiskQualifies(byRisk) THEN <<IncreaseLine>> ELSE <<>>)
  \o (IF isBelowThreshold(correlation) THEN <<ReduceLine>> ELSE <<>>)

\* JSON has no NaN: res.json writes it as null
jsonNumber(c) == IF c.kind = "NaN" THEN Null ELSE c

\* res.status(200).json({...}) (lines 391-402)
reportWith(userId, underperforming, byRisk, n, correlation, generatedAt) ==
  [status |-> 200,
   body |-> [userId |-> userId,
             windowDays |-> days,
             underperformingStrategies |-> underperforming,
             riskAverages |-> byRisk,
             riskOutcomeCorrelation |-> jsonNumber(correlation),
             suggestions |-> suggestionsOf(underperforming, byRisk, correlation),
             meta |-> [totalTradesAnalyzed |-> n,
                       generatedAt |-> generatedAt]]]

\* the handler from the store's reply to its response (lines 330-402)
reportOf(userId, docs, generatedAt) ==
  reportWith(userId, underperformingOf(byStrategyOf(docs)), byRiskOf(docs),
             Len(perTradeOf(docs)), correlationOf(perTradeOf(docs)),
             generatedAt)

InvalidUserId == [status |-> 400, body |-> [error |-> "Invalid userId"]]
InternalServerError == [status |-> 500, body |-> [error |-> "Internal Server Error"]]
NoResponse == [status |-> 0, body |-> [error |-> ""]]

(***************************************************************************)
(* The request, step by step.  pc is "idle" before the first request,      *)
(* "awaiting" between the call of Trade.aggregate and the handler's        *)
(* resumption, "done" once the response is sent.  req, reply, queries and  *)
(* sent describe the latest request; response is the latest response sent  *)
(* and answered the request it answers.                                    *)
(***************************************************************************)
\* Receive without the return after the 400 response
ReceiveNoReturn(userId) ==
  /\ pc \in {"idle", "done"}
  /\ req' = [userId |-> userId, userObjectId |-> userId,
             windowStart |-> windowStartAt(now)]
  /\ reply' = [kind |-> "pending"]
  /\ pc' = "awaiting"
  /\ queries' = 1
  /\ IF ~isValid(userId)
     THEN /\ response' = InvalidUserId
          /\ answered' = [userId |-> userId]
          /\ sent' = 1
     ELSE /\ sent' = 0
          /\ UNCHANGED <<response, answered>>
  /\ UNCHANGED <<store, now>>
  /\ UNCHANGED syncVars

\* the handler up to its await (lines 229-328)
Receive(userId) ==
  /\ pc \in {"idle", "done"}
  /\ IF ~isValid(userId)
     THEN /\ req' = [userId |-> userId]
          /\ response' = InvalidUserId
          /\ answered' = [userId |-> userId]
          /\ pc' = "done"
          /\ reply' = [kind |-> "none"]
          /\ queries' = 0
          /\ sent' = 1
     ELSE /\ req' = [userId |-> userId, userObjectId |-> userId,
                     windowStart |-> windowStartAt(now)]
          /\ reply' = [kind |-> "pending"]
          /\ pc' = "awaiting"
          /\ queries' = 1
          /\ sent' = 0
          /\ UNCHANGED <<response, answered>>
  /\ UNCHANGED <<store, now>>
  /\ UNCHANGED syncVars

\* the store evaluates the pipeline on the collection as it is now
StoreRuns ==
  /\ pc = "awaiting" /\ reply.kind = "pending"
  /\ \E doc \in facetResults(matchStage(req.userObjectId, req.windowStart)) :
       reply' = [kind |-> "resolved", docs |-> <<doc>>]
  /\ UNCHANGED <<store, now, pc, req, response, answered, queries, sent>>
  /\ UNCHANGED syncVars

\* a store that yields no document when nothing matches
StoreRunsNoDoc ==
  /\ pc = "awaiting" /\ reply.kind = "pending"
  /\ matchStage(req.userObjectId, req.windowStart) = EmptyBag
  /\ reply' = [kind |-> "resolved", docs |-> <<>>]
  /\ UNCHANGED <<store, now, pc, req, response, answered, queries, sent>>
  /\ UNCHANGED syncVars

\* the query fails: the promise rejects
StoreFails ==
  /\ pc = "awaiting" /\ reply.kind = "pending"
  /\ reply' = [kind |-> "rejected"]
  /\ UNCHANGED <<store, now, pc, req, response, answered, queries, sent>>
  /\ UNCHANGED syncVars

\* Resume with a suggestions array that outlives the request
ResumeAppending ==
  /\ pc = "awaiting" /\ reply.kind \in {"resolved", "rejected"}
  /\ response' =
       IF reply.kind = "rejected" THEN InternalServerError
       ELSE LET report == reportOf(req.userId, reply.docs, now)
            IN IF response.status = 200
               THEN [report EXCEPT !.body.suggestions =
                       response.body.suggestions \o @]
               ELSE report
  /\ answered' = req
  /\ sent' = sent + 1
  /\ pc' = "done"
  /\ UNCHANGED <<store, now, req, reply, queries>>
  /\ UNCHANGED syncVars

\* Resume with a handler that deletes the trades it has analysed
ResumeConsuming ==
  /\ pc = "awaiting" /\ reply.kind \in {"resolved", "rejected"}
  /\ response' = IF reply.kind = "rejected" THEN InternalServerError
                 ELSE reportOf(req.userId, reply.docs, now)
  /\ store' = IF reply.kind = "rejected" THEN store
              ELSE store (-) matchStage(req.userObjectId, req.windowStart)
  /\ answered' = req
  /\ sent' = sent + 1
  /\ pc' = "done"
  /\ UNCHANGED <<now, req, reply, queries>>
  /\ UNCHANGED syncVars

\* the handler after its await (lines 328-407)
Resume ==
  /\ pc = "awaiting" /\ reply.kind \in {"resolved", "rejected"}
  /\ response' = IF reply.kind = "rejected" THEN InternalServerError
                 ELSE reportOf(req.userId, reply.docs, now)
  /\ answered' = req
  /\ sent' = sent + 1
  /\ pc' = "done"
  /\ UNCHANGED <<store, now, req, reply, queries>>
  /\ UNCHANGED syncVars

\* another client of the collection inserts the trade d
Insert(d) ==
  /\ BagCardinality(store) < MaxStored
  /\ store' = store (+) SetToBag({d})
  /\ UNCHANGED <<now, pc, req, reply, response, answered, queries, sent>>
  /\ UNCHANGED syncVars

\* another client of the collection deletes one trade d
Delete(d) ==
  /\ BagIn(d, store)
  /\ store' = store (-) SetToBag({d})
  /\ UNCHANGED <<now, pc, req, reply, response, answered, queries, sent>>
  /\ UNCHANGED syncVars

(***************************************************************************)
(* Requests in flight together.  Express runs the handler once per         *)
(* request, and each run suspends at its await, so the steps of several    *)
(* runs interleave.  Here pc, req, reply and response hold one value per   *)
(* run, indexed by Slots; the steps are those of Receive, StoreRuns,       *)
(* StoreFails and Resume, taken by run k.  Each run serves one request.    *)
(***************************************************************************)
\* the runs of the handler that can be in flight together
Slots == {1, 2}

\* run k of the handler up to its await (lines 229-328)
ReceiveAt(k, userId) ==
  /\ pc[k] = "idle"
  /\ IF ~isValid(userId)
     THEN /\ req' = [req EXCEPT ![k] = [userId |-> userId, receivedAt |-> now]]
          /\ response' = [response EXCEPT ![k] = InvalidUserId]
          /\ pc' = [pc EXCEPT ![k] = "done"]
          /\ reply' = [reply EXCEPT ![k] = [kind |-> "none"]]
     ELSE /\ req' = [req EXCEPT ![k] =
                       [userId |-> userId, receivedAt |-> now,
                        userObjectId |-> userId,
                        windowStart |-> windowStartAt(now)]]
          /\ reply' = [reply EXCEPT ![k] = [kind |-> "pending"]]
          /\ pc' = [pc EXCEPT ![k] = "awaiting"]
          /\ UNCHANGED response
  /\ UNCHANGED <<store, now, answered, queries, sent>>
  /\ UNCHANGED syncVars

\* StoreRunsAt with userObjectId and windowStart kept at module scope, where
\* any run in flight may have written them last
StoreRunsAtShared(k) ==
  /\ pc[k] = "awaiting" /\ reply[k].kind = "pending"
  /\ \E j \in {i \in Slots : pc[i] = "awaiting"} :
       \E doc \in facetResults(matchStage(req[j].userObjectId,
                                          req[j].windowStart)) :
         reply' = [reply EXCEPT ![k] = [kind |-> "resolved", docs |-> <<doc>>]]
  /\ UNCHANGED <<store, now, pc, req, response, answered, queries, sent>>
  /\ UNCHANGED syncVars

\* the store evaluates the pipeline of run k on the collection as it is now
StoreRunsAt(k) ==
  /\ pc[k] = "awaiting" /\ reply[k].kind = "pending"
  /\ \E doc \in facetResults(matchStage(req[k].userObjectId,
                                        req[k].windowStart)) :
       reply' = [reply EXCEPT ![k] = [kind |-> "resolved", docs |-> <<doc>>]]
  /\ UNCHANGED <<store, now, pc, req, response, answered, queries, sent>>
  /\ UNCHANGED syncVars

\* the query of run k fails: its promise rejects
StoreFailsAt(k) ==
  /\ pc[k] = "awaiting" /\ reply[k].kind = "pending"
  /\ reply' = [reply EXCEPT ![k] = [kind |-> "rejected"]]
  /\ UNCHANGED <<store, now, pc, req, response, answered, queries, sent>>
  /\ UNCHANGED syncVars

\* run k of the handler after its await (lines 328-407)
ResumeAt(k) ==
  /\ pc[k] = "awaiting" /\ reply[k].kind \in {"resolved", "rejected"}
  /\ response' =
       [response EXCEPT ![k] =
          IF reply[k].kind = "rejected" THEN InternalServerError
          ELSE reportOf(req[k].userId, reply[k].docs, now)]
  /\ pc' = [pc EXCEPT ![k] = "done"]
  /\ UNCHANGED <<store, now, req, reply, answered, queries, sent>>
  /\ UNCHANGED syncVars

\* the clock advances
Tick ==
  /\ now < Now0 + MaxTicks
  /\ now' = now + 1
  /\ UNCHANGED <<store, pc, req, reply, response, answered, queries, sent>>
  /\ UNCHANGED syncVars

(***************************************************************************)
(* The sync service: TokenService, AdapterRegistry, SyncService and the    *)
(* POST /sync route.                                                       *)
(***************************************************************************)
\* TOKEN_REFRESH_SKEW_MS is unset: a token counts as expired this many
\* milliseconds before its expiresAt
skewMs == 30000

\* the clock of the model counts seconds
skew == skewMs \div 1000

\* the expiry the route gives a token whose body names none, and the expiry
\* ZerodhaAdapter.refreshToken gives the token it returns
defaultExpiry(t) == t + 23 * 60 * 60
refreshedExpiry(t) == t + 24 * 60 * 60

\* String.prototype.toLowerCase on the broker names of the model
toLowerCase(str) ==
  CASE str = "Zerodha" -> "zerodha"
    [] str = "ZERODHA" -> "zerodha"
    [] str = "MetaTrader" -> "metatrader"
    [] OTHER -> str

\* TokenService.getKey
getKey(userId, brokerName) == userId \o ":" \o brokerName

\* TokenService.setToken, getToken and removeToken on a token store T
setToken(T, userId, brokerName, tokenData) ==
  [key \in DOMAIN T \cup {getKey(userId, brokerName)} |->
     IF key = getKey(userId, brokerName) THEN tokenData ELSE T[key]]

getToken(T, userId, brokerName) ==
  IF getKey(userId, brokerName) \in DOMAIN T
  THEN T[getKey(userId, brokerName)]
  ELSE Null

removeToken(T, userId, brokerName) ==
  [key \in DOMAIN T \ {getKey(userId, brokerName)} |-> T[key]]

\* TokenService.isTokenValid at time t: what it returns, and the store it
\* leaves (it removes the token it finds expired)
isTokenValid(T, userId, brokerName, t) ==
  /\ getToken(T, userId, brokerName) # Null
  /\ t < getToken(T, userId, brokerName).expiresAt - skew

afterIsTokenValid(T, userId, brokerName, t) ==
  IF /\ getToken(T, userId, brokerName) # Null
     /\ ~(t < getToken(T, userId, brokerName).expiresAt - skew)
  THEN removeToken(T, userId, brokerName)
  ELSE T

\* the adapter the registry's constructor registers, and the adapters
\* registerAdapter may be given
ZerodhaAdapter == [name |-> "zerodha", id |-> 0]

Adapters == [name : {"zerodha", "metatrader", "MetaTrader"}, id : {1}]

getName(adapter) == adapter.name

\* AdapterRegistry.getAdapter, isBrokerSupported, registerAdapter and
\* unregisterAdapter on a registry R
UnknownBroker == [error |-> "Unknown broker"]

getAdapter(R, brokerName) ==
  IF toLowerCase(brokerName) \in DOMAIN R
  THEN R[toLowerCase(brokerName)]
  ELSE UnknownBroker

isBrokerSupported(R, brokerName) == toLowerCase(brokerName) \in DOMAIN R

registerAdapter(R, adapter) ==
  [key \in DOMAIN R \cup {getName(adapter)} |->
     IF key = getName(adapter) THEN adapter ELSE R[key]]

unregisterAdapter(R, brokerName) ==
  [key \in DOMAIN R \ {toLowerCase(brokerName)} |-> R[key]]

unregisterAdapterReturns(R, brokerName) == toLowerCase(brokerName) \in DOMAIN R

\* a JavaScript value a raw trade's field may hold: its type, and the text
\* toString gives for it (undefined has none)
value(type, str) == [type |-> type, str |-> str]

\* rawTrade[name]: undefined when the raw trade has no such field
field(rawTrade, name) == IF name \in DOMAIN rawTrade THEN rawTrade[name] ELSE value("undefined", "")

\* JavaScript's truthiness of a value
truthy(v) ==
  \/ v.type = "string" /\ v.str # ""
  \/ v.type = "number" /\ v.str \notin {"0", "NaN"}

\* v?.toString() || fallback
toStringOr(v, fallback) == IF v.type = "undefined" \/ v.str = "" THEN fallback ELSE v.str

\* String.prototype.toUpperCase on the transaction types of the model
toUpperCase(str) ==
  CASE str = "sell" -> "SELL"
    [] str = "buy" -> "BUY"
    [] OTHER -> str

\* parseInt(str, 10) and parseFloat(str) on the numeric texts of the model,
\* as a number of hundredths: parseInt stops at the decimal point, and a
\* text that starts with no digit gives NaN
parseInt(str) ==
  CASE str = "10" -> [nan |-> FALSE, hundredths |-> 1000]
    [] str = "0" -> [nan |-> FALSE, hundredths |-> 0]
    [] str = "0.5" -> [nan |-> FALSE, hundredths |-> 0]
    [] str = "1.5" -> [nan |-> FALSE, hundredths |-> 100]
    [] str = "-3" -> [nan |-> FALSE, hundredths |-> -300]
    [] OTHER -> [nan |-> TRUE, hundredths |-> 0]

parseFloat(str) ==
  CASE str = "10" -> [nan |-> FALSE, hundredths |-> 1000]
    [] str = "0" -> [nan |-> FALSE, hundredths |-> 0]
    [] str = "0.5" -> [nan |-> FALSE, hundredths |-> 50]
    [] str = "1.5" -> [nan |-> FALSE, hundredths |-> 150]
    [] str = "-3" -> [nan |-> FALSE, hundredths |-> -300]
    [] OTHER -> [nan |-> TRUE, hundredths |-> 0]

\* normalizeZerodhaTrade: reading a field of null throws, and so does
\* toUpperCase on a transaction_type that is a number; what is thrown is an
\* Error, here a record with the field error.  The timestamp of a raw trade
\* that carries none is the clock's, whatever its text.
normalizeZerodhaTrade(rawTrade) ==
  IF rawTrade = Null \/ field(rawTrade, "transaction_type").type = "number"
  THEN [error |-> "Failed to normalize Zerodha trade data"]
  ELSE [symbol |-> IF truthy(field(rawTrade, "tradingsymbol")) THEN field(rawTrade, "tradingsymbol")
                   ELSE value("string", toStringOr(field(rawTrade, "instrument_token"), "UNKNOWN")),
        quantity |-> parseInt(toStringOr(field(rawTrade, "quantity"), "0")),
        price |-> parseFloat(toStringOr(field(rawTrade, "average_price"), "0")),
        timestamp |-> IF truthy(field(rawTrade, "order_timestamp")) THEN field(rawTrade, "order_timestamp")
                      ELSE IF truthy(field(rawTrade, "exchange_timestamp")) THEN field(rawTrade, "exchange_timestamp")
                      ELSE value("string", "now"),
        side |-> IF toUpperCase(field(rawTrade, "transaction_type").str) = "SELL" THEN "SELL" ELSE "BUY"]

\* normalizeMetaTraderTrade: the quantity is the volume's absolute value and
\* the side its sign
normalizeMetaTraderTrade(rawTrade) ==
  IF rawTrade = Null
  THEN [error |-> "Failed to normalize MetaTrader trade data"]
  ELSE [symbol |-> IF truthy(field(rawTrade, "symbol")) THEN field(rawTrade, "symbol")
                   ELSE IF truthy(field(rawTrade, "instrument")) THEN field(rawTrade, "instrument")
                   ELSE value("string", "UNKNOWN"),
        quantity |-> [nan |-> parseFloat(toStringOr(field(rawTrade, "volume"), "0")).nan,
                      hundredths |-> IF parseFloat(toStringOr(field(rawTrade, "volume"), "0")).hundredths < 0
                                     THEN 0 - parseFloat(toStringOr(field(rawTrade, "volume"), "0")).hundredths
                                     ELSE parseFloat(toStringOr(field(rawTrade, "volume"), "0")).hundredths],
        price |-> parseFloat(toStringOr(field(rawTrade, "price"), "0")),
        timestamp |-> IF truthy(field(rawTrade, "time")) THEN field(rawTrade, "time")
                      ELSE IF truthy(field(rawTrade, "close_time")) THEN field(rawTrade, "close_time")
                      ELSE value("string", "now"),
        side |-> IF /\ ~parseFloat(toStringOr(field(rawTrade, "volume"), "0")).nan
                    /\ parseFloat(toStringOr(field(rawTrade, "volume"), "0")).hundredths > 0
                 THEN "BUY" ELSE "SELL"]

\* normalizeTrade: the normalizer of the broker, by its lower-cased name
normalizeTrade(rawTrade, brokerName) ==
  CASE toLowerCase(brokerName) = "zerodha" -> normalizeZerodhaTrade(rawTrade)
    [] toLowerCase(brokerName) = "metatrader" -> normalizeMetaTraderTrade(rawTrade)
    [] OTHER -> [error |-> "Unknown broker"]

\* validateNormalizedTrade: a comparison with NaN is false
validateNormalizedTrade(trade) ==
  /\ truthy(trade.symbol)
  /\ trade.symbol # value("string", "UNKNOWN")
  /\ ~trade.quantity.nan /\ trade.quantity.hundredths > 0
  /\ ~trade.price.nan /\ trade.price.hundredths > 0
  /\ truthy(trade.timestamp)
  /\ trade.side \in {"BUY", "SELL"}

\* SyncService.normalizeTrades giving up at the first raw trade whose
\* normalization throws
RECURSIVE normalizeTradesUntilThrow(_, _)
normalizeTradesUntilThrow(rawTrades, brokerName) ==
  IF rawTrades = <<>> \/ "error" \in DOMAIN normalizeTrade(Head(rawTrades), brokerName)
  THEN <<>>
  ELSE <<normalizeTrade(Head(rawTrades), brokerName)>> \o normalizeTradesUntilThrow(Tail(rawTrades), brokerName)

\* SyncService.normalizeTrades: the raw trades normalized in order, those
\* whose normalization throws left out
RECURSIVE normalizeTrades(_, _)
normalizeTrades(rawTrades, brokerName) ==
  IF rawTrades = <<>> THEN <<>>
  ELSE (IF "error" \in DOMAIN normalizeTrade(Head(rawTrades), brokerName) THEN <<>>
        ELSE <<normalizeTrade(Head(rawTrades), brokerName)>>) \o normalizeTrades(Tail(rawTrades), brokerName)

\* no call of the service is being served
NoSync == [pc |-> "idle", userId |-> "", broker |-> "", token |-> "", status |-> 0, error |-> "", rawTrades |-> <<>>, trades |-> <<>>]

\* a call made to an adapter
refreshTokenCall(adapter, oldToken) == [adapter |-> adapter, op |-> "refreshToken", token |-> oldToken]
fetchTradesCall(adapter, token) == [adapter |-> adapter, op |-> "fetchTrades", token |-> token]

\* the adapter serving the call in progress
adapterOf(s) == getAdapter(adapters, s.broker)

\* SyncService.getValidToken on the token store T, up to the call it
\* awaits: a token that is valid is returned, and syncTrades passes it to
\* adapter.fetchTrades; otherwise adapter.refreshToken is called with the
\* access token getToken finds after isTokenValid has run
getValidToken(T, userId, brokerName, adapter) ==
  IF /\ isTokenValid(T, userId, brokerName, now)
     /\ getToken(afterIsTokenValid(T, userId, brokerName, now), userId, brokerName) # Null
  THEN /\ tokenStore' = T
       /\ calls' = Append(calls, fetchTradesCall(adapter, getToken(T, userId, brokerName).accessToken))
       /\ sync' = [NoSync EXCEPT !.pc = "fetching", !.userId = userId, !.broker = brokerName,
                                 !.token = getToken(T, userId, brokerName).accessToken]
  ELSE /\ tokenStore' = afterIsTokenValid(T, userId, brokerName, now)
       /\ calls' = Append(calls, refreshTokenCall(adapter,
                     IF getToken(afterIsTokenValid(T, userId, brokerName, now), userId, brokerName) # Null
                     THEN getToken(afterIsTokenValid(T, userId, brokerName, now), userId, brokerName).accessToken
                     ELSE ""))
       /\ sync' = [NoSync EXCEPT !.pc = "refreshing", !.userId = userId, !.broker = brokerName]

\* SyncService.syncTrades on the token store T, up to the call it awaits
syncTrades(T, userId, brokerName) ==
  IF getAdapter(adapters, brokerName) = UnknownBroker
  THEN /\ tokenStore' = T
       /\ calls' = calls
       /\ sync' = [NoSync EXCEPT !.pc = "done", !.userId = userId, !.broker = brokerName,
                                 !.status = 400, !.error = "Invalid broker"]
  ELSE getValidToken(T, userId, brokerName, getAdapter(adapters, brokerName))

\* JavaScript's falsy values among those a body field takes
falsy(v) == v = Missing \/ v = ""

\* the token the route stores for a body that carries an access token
seededToken(body) ==
  [accessToken |-> body.accessToken,
   expiresAt |-> IF body.expiresAt # 0 THEN body.expiresAt ELSE defaultExpiry(now)]

\* POST /sync storing the body's token before it has checked the broker
PostSyncSeedingFirst(body) ==
  /\ sync.pc = "idle"
  /\ Len(calls) < MaxCalls
  /\ IF falsy(body.userId) \/ falsy(body.broker)
     THEN /\ sync' = [NoSync EXCEPT !.pc = "done", !.status = 400, !.error = "Missing required fields"]
          /\ UNCHANGED <<tokenStore, calls>>
     ELSE IF ~isBrokerSupported(adapters, body.broker)
     THEN /\ sync' = [NoSync EXCEPT !.pc = "done", !.userId = body.userId, !.broker = body.broker,
                                    !.status = 400, !.error = "Unsupported broker"]
          /\ tokenStore' = IF falsy(body.accessToken) THEN tokenStore
                           ELSE setToken(tokenStore, body.userId, body.broker, seededToken(body))
          /\ UNCHANGED calls
     ELSE syncTrades(IF falsy(body.accessToken) THEN tokenStore
                     ELSE setToken(tokenStore, body.userId, body.broker, seededToken(body)),
                     body.userId, body.broker)
  /\ UNCHANGED <<store, now, pc, req, reply, response, answered, queries, sent, adapters>>

\* POST /sync: the handler up to the call it awaits
PostSync(body) ==
  /\ sync.pc = "idle"
  /\ Len(calls) < MaxCalls
  /\ IF falsy(body.userId) \/ falsy(body.broker)
     THEN /\ sync' = [NoSync EXCEPT !.pc = "done", !.status = 400, !.error = "Missing required fields"]
          /\ UNCHANGED <<tokenStore, calls>>
     ELSE IF ~isBrokerSupported(adapters, body.broker)
     THEN /\ sync' = [NoSync EXCEPT !.pc = "done", !.userId = body.userId, !.broker = body.broker,
                                    !.status = 400, !.error = "Unsupported broker"]
          /\ UNCHANGED <<tokenStore, calls>>
     ELSE syncTrades(IF falsy(body.accessToken) THEN tokenStore
                     ELSE setToken(tokenStore, body.userId, body.broker, seededToken(body)),
                     body.userId, body.broker)
  /\ UNCHANGED <<store, now, pc, req, reply, response, answered, queries, sent, adapters>>

\* adapter.refreshToken resolves: getValidToken stores the token and returns
\* its access token, and syncTrades passes it to adapter.fetchTrades
RefreshResolves(tokenData) ==
  /\ sync.pc = "refreshing"
  /\ tokenStore' = setToken(tokenStore, sync.userId, sync.broker, tokenData)
  /\ calls' = Append(calls, fetchTradesCall(adapterOf(sync), tokenData.accessToken))
  /\ sync' = [sync EXCEPT !.pc = "fetching", !.token = tokenData.accessToken]
  /\ UNCHANGED <<store, now, pc, req, reply, response, answered, queries, sent, adapters>>

\* adapter.refreshToken rejects: getValidToken throws "Authentication
\* failed", and the route answers 401
RefreshRejects ==
  /\ sync.pc = "refreshing"
  /\ sync' = [sync EXCEPT !.pc = "done", !.status = 401, !.error = "Authentication failed"]
  /\ UNCHANGED <<store, now, pc, req, reply, response, answered, queries, sent, adapters, tokenStore, calls>>

\* adapter.fetchTrades resolves with raw trades: syncTrades normalizes them
\* and returns the valid ones, and the route answers 200 with them
FetchResolves(rawTrades) ==
  /\ sync.pc = "fetching"
  /\ sync' = [sync EXCEPT !.pc = "done", !.status = 200, !.rawTrades = rawTrades,
                          !.trades = SelectSeq(normalizeTrades(rawTrades, sync.broker), validateNormalizedTrade)]
  /\ UNCHANGED <<store, now, pc, req, reply, response, answered, queries, sent, adapters, tokenStore, calls>>

\* adapter.fetchTrades rejects, and the route answers 500
FetchRejects ==
  /\ sync.pc = "fetching"
  /\ sync' = [sync EXCEPT !.pc = "done", !.status = 500, !.error = "Internal server error"]
  /\ UNCHANGED <<store, now, pc, req, reply, response, answered, queries, sent, adapters, tokenStore, calls>>

\* the client has its answer, and the next request may come
SyncAnswered ==
  /\ sync.pc = "done"
  /\ sync' = NoSync
  /\ UNCHANGED <<store, now, pc, req, reply, response, answered, queries, sent, adapters, tokenStore, calls>>

\* AdapterRegistry.registerAdapter and unregisterAdapter
RegisterAdapter(adapter) ==
  /\ adapters' = registerAdapter(adapters, adapter)
  /\ UNCHANGED <<store, now, pc, req, reply, response, answered, queries, sent, tokenStore, calls, sync>>

UnregisterAdapter(brokerName) ==
  /\ adapters' = unregisterAdapter(adapters, brokerName)
  /\ UNCHANGED <<store, now, pc, req, reply, response, answered, queries, sent, tokenStore, calls, sync>>

\* the sync service after construction: no token stored, the Zerodha
\* adapter registered under its name, and no call made
InitSyncService ==
  /\ tokenStore = [key \in {} |-> Null]
  /\ adapters = [key \in {getName(ZerodhaAdapter)} |-> ZerodhaAdapter]
  /\ calls = <<>>
  /\ sync = NoSync

(***************************************************************************)
(* Specifications.                                                         *)
(***************************************************************************)
Strategies == {"trend", "mean-reversion"}

\* Spec: requests of every kind over a small collection: trades of two
\* users, dated just before the first window's start, exactly at it, and
\* one second after the first instant (in the future of a request made at
\* the first instant), each a low-risk win or a high-risk loss
TradeDocs ==
  {d \in [userId : ObjectIds, strategyId : Strategies,
           tradeDate : {windowStartAt(Now0) - 1, windowStartAt(Now0), Now0 + 1},
           riskLevel : {"low", "high"}, outcome : {-1, 3}, win : BOOLEAN] :
     /\ d.win <=> d.riskLevel = "low"
     /\ d.win <=> d.outcome = 3}

\* SpecReport: one user's trades of today, varied in what the facets read
RiskOutcomes ==
  {<<"low", -3>>, <<"low", 0>>, <<"low", 3>>, <<"medium", -1>>, <<"high", -1>>}

ReportDocs ==
  {d \in [userId : {"u1"}, strategyId : Strategies, tradeDate : {Now0},
           riskLevel : {"low", "medium", "high"}, outcome : {-3, -1, 0, 3},
           win : BOOLEAN] :
     <<d.riskLevel, d.outcome>> \in RiskOutcomes}

InitRequest ==
  /\ now = Now0
  /\ pc = "idle"
  /\ req = [userId |-> ""]
  /\ reply = [kind |-> "none"]
  /\ response = NoResponse
  /\ answered = [userId |-> ""]
  /\ queries = 0
  /\ sent = 0
  /\ InitSyncService

Init ==
  /\ store \in BagsUpTo(TradeDocs, MaxTrades)
  /\ InitRequest

Next ==
  \/ \E userId \in RequestIds : Receive(userId)
  \/ StoreRuns
  \/ StoreRunsNoDoc
  \/ StoreFails
  \/ Resume
  \/ Tick

Spec == Init /\ [][Next]_vars

InitReport ==
  /\ store \in BagsUpTo(ReportDocs, MaxReportTrades)
  /\ InitRequest

NextReport ==
  \/ Receive("u1")
  \/ StoreRuns
  \/ Resume

SpecReport == InitReport /\ [][NextReport]_vars

\* SpecWrites: one user's requests while other clients insert and delete
\* trades, some inside and some outside the window
WriteDocs ==
  {d \in TradeDocs : d.userId = "u1" /\ d.tradeDate # windowStartAt(Now0)}

InitWrites ==
  /\ store \in BagsUpTo(WriteDocs, MaxStored)
  /\ InitRequest

NextWrites ==
  \/ Receive("u1")
  \/ StoreRuns
  \/ Resume
  \/ \E d \in WriteDocs : Insert(d)
  \/ \E d \in WriteDocs : Delete(d)

SpecWrites == InitWrites /\ [][NextWrites]_vars

\* SpecConcurrent: two runs of the handler in flight together, for the same
\* or different users, over trades of two users dated exactly at the first
\* window's start (outside the window of a later request) or after it
ConcurrentDocs ==
  {d \in TradeDocs : /\ d.strategyId = "trend" /\ d.win
                     /\ d.tradeDate >= windowStartAt(Now0)}

InitConcurrent ==
  /\ store \in BagsUpTo(ConcurrentDocs, MaxConcurrentTrades)
  /\ now = Now0
  /\ pc = [k \in Slots |-> "idle"]
  /\ req = [k \in Slots |-> [userId |-> ""]]
  /\ reply = [k \in Slots |-> [kind |-> "none"]]
  /\ response = [k \in Slots |-> NoResponse]
  /\ answered = [userId |-> ""]
  /\ queries = 0
  /\ sent = 0
  /\ InitSyncService

NextConcurrent ==
  \/ \E k \in Slots, userId \in RequestIds : ReceiveAt(k, userId)
  \/ \E k \in Slots : StoreRunsAt(k)
  \/ \E k \in Slots : StoreFailsAt(k)
  \/ \E k \in Slots : ResumeAt(k)
  \/ Tick

SpecConcurrent == InitConcurrent /\ [][NextConcurrent]_vars

\* SpecRisk: one user's trades of every riskLevel, those of the schema's
\* enum, one outside it and none at all
RiskLevels == {"low", "medium", "high", "extreme", Missing}

RiskDocs ==
  [userId : {"u1"}, strategyId : {"trend"}, tradeDate : {Now0 + 1},
   riskLevel : RiskLevels, outcome : {-1, 3}, win : {TRUE}]

InitRisk ==
  /\ store \in BagsUpTo(RiskDocs, MaxRiskTrades)
  /\ InitRequest

SpecRisk == InitRisk /\ [][NextReport]_vars

\* trades whose outcomes are large enough for the handler's sums to round:
\* the square of 2^26 + 1 needs 54 significant bits
NumericDocs ==
  [userId : {"u1"}, strategyId : {"trend"}, tradeDate : {Now0},
   riskLevel : {"low", "medium", "high"}, outcome : {2^26, 2^26 + 1},
   win : {TRUE}]

InitNumeric ==
  /\ store \in BagsUpTo(NumericDocs, MaxNumericTrades)
  /\ InitRequest

SpecNumeric == InitNumeric /\ [][NextReport]_vars

\* the raw trades an adapter may return: null; Zerodha orders (a sale, an
\* order whose transaction_type is a number, a purchase, an order of half a
\* share named by its instrument token, an order with no symbol and no
\* readable price); MetaTrader deals (a sale of three lots, a deal at
\* price 0)
RawTrades ==
  {Null,
   [tradingsymbol |-> value("string", "INFY"), quantity |-> value("number", "10"),
    average_price |-> value("string", "1.5"), order_timestamp |-> value("string", "t1"),
    transaction_type |-> value("string", "sell")],
   [tradingsymbol |-> value("string", "INFY"), quantity |-> value("number", "10"),
    average_price |-> value("string", "1.5"), order_timestamp |-> value("string", "t1"),
    transaction_type |-> value("number", "1")],
   [tradingsymbol |-> value("string", "TCS"), quantity |-> value("string", "10"),
    average_price |-> value("number", "10"), order_timestamp |-> value("string", "t2")],
   [instrument_token |-> value("number", "10"), quantity |-> value("string", "0.5"),
    average_price |-> value("string", "1.5"), exchange_timestamp |-> value("string", "t1")],
   [quantity |-> value("number", "10"), average_price |-> value("string", "abc")],
   [symbol |-> value("string", "EURUSD"), volume |-> value("string", "-3"),
    price |-> value("string", "1.5"), time |-> value("string", "t2")],
   [symbol |-> value("string", "EURUSD"), volume |-> value("number", "10"),
    price |-> value("number", "0"), close_time |-> value("string", "t2")]}

\* SpecSync: requests to POST /sync, with and without a token in the body,
\* for brokers the registry knows and brokers it does not, while adapters
\* are registered and unregistered and the clock advances past a token's
\* expiry
BrokerNames == {"zerodha", "Zerodha", "metatrader", "MetaTrader"}

SyncBodies ==
  [userId : {"", "u1"}, broker : {Missing, "zerodha", "Zerodha", "metatrader"},
   accessToken : {Missing, "t-body"}, expiresAt : {0, Now0 + skew, Now0 + skew + 1}]

RefreshedTokens ==
  [accessToken : {"t-new"}, expiresAt : {Now0 + skew + 1, refreshedExpiry(Now0)}]

InitSync ==
  /\ store = EmptyBag
  /\ InitRequest

NextSync ==
  \/ \E body \in SyncBodies : PostSync(body)
  \/ \E tokenData \in RefreshedTokens : RefreshResolves(tokenData)
  \/ RefreshRejects
  \/ \E rawTrades \in {<<>>} \cup {<<rawTrade>> : rawTrade \in RawTrades} : FetchResolves(rawTrades)
  \/ FetchRejects
  \/ SyncAnswered
  \/ \E adapter \in Adapters : RegisterAdapter(adapter)
  \/ \E brokerName \in BrokerNames : UnregisterAdapter(brokerName)
  \/ Tick

SpecSync == InitSync /\ [][NextSync]_vars

\* SpecTrades: requests that carry a valid token, for Zerodha, for
\* MetaTrader and for a broker normalizeTrade does not know, once their
\* adapters are registered; the adapter returns up to MaxRawTrades raw trades
NextTrades ==
  \/ \E brokerName \in {"Zerodha", "metatrader", "upstox"} :
       PostSync([userId |-> "u1", broker |-> brokerName, accessToken |-> "t-body", expiresAt |-> 0])
  \/ \E brokerName \in {"metatrader", "upstox"} : RegisterAdapter([name |-> brokerName, id |-> 1])
  \/ \E rawTrades \in UNION {[1..n -> RawTrades] : n \in 0..MaxRawTrades} : FetchResolves(rawTrades)
  \/ SyncAnswered

SpecTrades == InitSync /\ [][NextTrades]_vars

(***************************************************************************)
(* What the claims speak of.                                               *)
(***************************************************************************)
\* a report has been sent for the latest request
Reported == pc = "done" /\ response.status = 200

\* the trades in the window of the latest request
window == matchStage(req.userObjectId, req.windowStart)

\* how often line occurs in the sequence lines
Occurrences(lines, line) == Cardinality({i \in 1..Len(lines) : lines[i] = line})

\* C1: riskOutcomeCorrelation is null exactly when the window holds fewer
\* than 2 trades, or their risk scores are all equal, or their outcomes are
\* all equal; otherwise it is a number r with r * r <= 1.
C1_CorrelationNullOrInRange ==
  Reported =>
    LET c == response.body.riskOutcomeCorrelation
        scores == {riskScore(d.riskLevel) : d \in BagToSet(window)}
        outcomes == {d.outcome : d \in BagToSet(window)}
    IN /\ c = Null <=> \/ BagCardinality(window) < 2
                       \/ Cardinality(scores) <= 1
                       \/ Cardinality(outcomes) <= 1
       /\ c # Null => /\ c.kind = "number"
                      /\ c.product # <<>>
                      /\ SquareCmp(c, 1, 1) <= 0

\* a report whose correlation is a number strictly between -1 and 0
C1_Witness ==
  /\ Reported
  /\ response.body.riskOutcomeCorrelation.kind = "number"
  /\ response.body.riskOutcomeCorrelation.numerator.neg
  /\ SquareCmp(response.body.riskOutcomeCorrelation, 1, 1) = -1

\* C2: every strategy bucket has 0 <= wins <= total and 0 <= winRate <= 1,
\* and a strategy is listed in underperformingStrategies exactly when its
\* bucket has total > 0 and winRate < 0.5, that is when less than half of
\* its trades in the window are wins.
C2_WinRateAndMembership ==
  Reported =>
    LET byStrategy == byStrategyOf(reply.docs)
        listed == {response.body.underperformingStrategies[i].strategyId :
                     i \in 1..Len(response.body.underperformingStrategies)}
        trades(s) == {d \in BagToSet(window) : d.strategyId = s}
        total(s) == SumOver(trades(s), window)
        wins(s) == SumOver({d \in trades(s) : d.win}, window)
    IN /\ \A i \in 1..Len(byStrategy) :
            /\ 0 <= byStrategy[i].wins
            /\ byStrategy[i].wins <= byStrategy[i].total
            /\ 0 <= byStrategy[i].winRate.num
            /\ byStrategy[i].winRate.num <= byStrategy[i].winRate.den
            /\ byStrategy[i].strategyId \in listed <=>
                 /\ byStrategy[i].total > 0
                 /\ 2 * byStrategy[i].winRate.num < byStrategy[i].winRate.den
       /\ \A s \in Strategies :
            s \in listed <=> total(s) > 0 /\ 2 * wins(s) < total(s)
       /\ listed \subseteq {byStrategy[i].strategyId : i \in 1..Len(byStrategy)}

\* a report with one strategy at winRate 0.5, not listed, and one listed
C2_Witness ==
  /\ Reported
  /\ Len(response.body.underperformingStrategies) = 1
  /\ \E i \in 1..Len(reply.docs[1].byStrategy) :
       reply.docs[1].byStrategy[i].winRate = Half

\* C3: a request whose userId fails the format validation is answered with
\* 400 {error: "Invalid userId"} and the store is never queried for it.
C3_InvalidUserIdRejected ==
  /\ pc = "awaiting" => req.userId \notin MalformedIds
  /\ (pc = "done" /\ req.userId \in MalformedIds) =>
       /\ response = InvalidUserId
       /\ queries = 0
       /\ sent = 1
       /\ reply.kind = "none"

\* a malformed userId has been answered while the store holds trades
C3_Witness ==
  /\ pc = "done"
  /\ req.userId \in MalformedIds
  /\ store # EmptyBag

\* C4: when no trade of the requested user lies in the window, also when
\* the store returns no facet document, a request whose query succeeds is
\* answered 200 with underperformingStrategies = [], riskAverages = [],
\* riskOutcomeCorrelation = null, suggestions = [] and
\* meta.totalTradesAnalyzed = 0.
C4_EmptyWindowReport ==
  (pc = "done" /\ reply.kind = "resolved" /\ window = EmptyBag) =>
    /\ response.status = 200
    /\ response.body.underperformingStrategies = <<>>
    /\ response.body.riskAverages = <<>>
    /\ response.body.riskOutcomeCorrelation = Null
    /\ response.body.suggestions = <<>>
    /\ response.body.meta.totalTradesAnalyzed = 0

\* an empty window over a store that holds trades, and no facet document
C4_Witness ==
  /\ pc = "done"
  /\ reply.kind = "resolved"
  /\ reply.docs = <<>>
  /\ window = EmptyBag
  /\ store # EmptyBag

\* C5: suggestions is, in this order, one "Refine entry criteria for
\* strategy <strategyId>" per entry of underperformingStrategies in that
\* list's order, which is ascending in winRate, then at most one "Increase
\* position size for low-risk trades", then at most one "Reduce exposure to
\* high-risk trades", and nothing else.
C5_SuggestionsOrder ==
  Reported =>
    LET u == response.body.underperformingStrategies
        s == response.body.suggestions
    IN /\ Len(s) >= Len(u)
       /\ \A i \in 1..Len(u) : s[i] = RefineLine(u[i].strategyId)
       /\ \A i, j \in 1..Len(u) :
            i < j => ~RatioLess(u[j].winRate, u[i].winRate)
       /\ SubSeq(s, Len(u) + 1, Len(s)) \in
            {<<>>, <<IncreaseLine>>, <<ReduceLine>>, <<IncreaseLine, ReduceLine>>}

\* two strategies of different winRate are listed and both other rules fire
C5_Witness ==
  /\ Reported
  /\ Len(response.body.underperformingStrategies) = 2
  /\ response.body.underperformingStrategies[1].winRate
       # response.body.underperformingStrategies[2].winRate
  /\ Len(response.body.suggestions) = 4

\* C6: "Increase position size for low-risk trades" occurs in suggestions
\* once if the window holds at least 3 low-risk trades whose outcomes have a
\* positive mean, and does not occur otherwise.
C6_IncreaseLine ==
  Reported =>
    LET low == {d \in BagToSet(window) : d.riskLevel = "low"}
        count == SumOver(low, window)
        sum == SumOver(low, [d \in low |-> d.outcome * window[d]])
    IN Occurrences(response.body.suggestions, IncreaseLine) =
         IF count >= 3 /\ sum > 0 THEN 1 ELSE 0

\* exactly 3 low-risk trades of mean outcome 1, and the line is there
C6_Witness ==
  /\ Reported
  /\ \E i \in 1..Len(response.body.riskAverages) :
       /\ response.body.riskAverages[i].riskLevel = "low"
       /\ response.body.riskAverages[i].count = 3
       /\ response.body.riskAverages[i].avgOutcome = One
  /\ Occurrences(response.body.suggestions, IncreaseLine) = 1

\* C7: "Reduce exposure to high-risk trades" occurs in suggestions once if
\* riskOutcomeCorrelation is a number below -0.2, and does not occur when it
\* is null or at least -0.2.
C7_ReduceLine ==
  Reported =>
    LET c == response.body.riskOutcomeCorrelation
    IN Occurrences(response.body.suggestions, ReduceLine) =
         IF /\ c.kind = "number"
            /\ c.numerator.neg
            /\ SquareCmp(c, 1, 25) = 1
         THEN 1 ELSE 0

\* a correlation of exactly -0.2, and the line is not there
C7_Witness ==
  /\ Reported
  /\ response.body.riskOutcomeCorrelation.kind = "number"
  /\ response.body.riskOutcomeCorrelation.numerator.neg
  /\ SquareCmp(response.body.riskOutcomeCorrelation, 1, 25) = 0
  /\ Occurrences(response.body.suggestions, ReduceLine) = 0

\* a report, its meta.generatedAt left out
exceptGeneratedAt(body) ==
  [body EXCEPT !.meta = [totalTradesAnalyzed |-> body.meta.totalTradesAnalyzed]]

\* a step that sends the report for a request whose predecessor was a report
\* request for the same userId, answered by the report in `response`
SecondReport ==
  /\ pc = "awaiting" /\ pc' = "done"
  /\ response.status = 200 /\ response'.status = 200
  /\ answered.userId = req.userId

agreeUpToTies(first, second) ==
  LET k == Len(first.underperformingStrategies)
      lines(body) ==
        [i \in 1..k |-> RefineLine(body.underperformingStrategies[i].strategyId)]
  IN /\ second.userId = first.userId
     /\ second.windowDays = first.windowDays
     /\ second.riskAverages = first.riskAverages
     /\ second.riskOutcomeCorrelation = first.riskOutcomeCorrelation
     /\ second.meta.totalTradesAnalyzed = first.meta.totalTradesAnalyzed
     /\ Len(second.underperformingStrategies) = k
     /\ {second.underperformingStrategies[i] : i \in 1..k} =
          {first.underperformingStrategies[i] : i \in 1..k}
     /\ \A i \in 1..k : second.underperformingStrategies[i].winRate =
                          first.underperformingStrategies[i].winRate
     /\ Len(second.suggestions) = Len(first.suggestions)
     /\ Len(first.suggestions) >= k
     /\ SubSeq(first.suggestions, 1, k) = lines(first)
     /\ SubSeq(second.suggestions, 1, k) = lines(second)
     /\ SubSeq(second.suggestions, k + 1, Len(second.suggestions)) =
          SubSeq(first.suggestions, k + 1, Len(first.suggestions))

\* both requests' windows select the same trades, and the handler's sums
\* over them do not round
sameWindow ==
  /\ matchStage(req.userObjectId, answered.windowStart) = window
  /\ sumsAreExact(window)

C9_AllWins ==
  (Reported /\ \A d \in BagToSet(window) : d.win) =>
    /\ response.body.underperformingStrategies = <<>>
    /\ \A s \in Strategies :
         Occurrences(response.body.suggestions, RefineLine(s)) = 0

\* a report over winning trades of both strategies, some with a loss-making
\* outcome
C9_Witness ==
  /\ Reported
  /\ \A d \in BagToSet(window) : d.win
  /\ \E d \in BagToSet(window) : d.outcome < 0
  /\ {d.strategyId : d \in BagToSet(window)} = Strategies

\* the fields of a complete report
ReportFields ==
  {"userId", "windowDays", "underperformingStrategies", "riskAverages",
   "riskOutcomeCorrelation", "suggestions", "meta"}

\* C10: a request gets no response before it ends and exactly one when it
\* ends: 400 {error: "Invalid userId"} for a malformed identifier, 500
\* {error: "Internal Server Error"} and nothing else when the query fails,
\* 200 with every field of the report when it succeeds; and once the query
\* has succeeded the handler's remaining steps yield such a report.
C10_ExactlyOneResponse ==
  /\ pc = "idle" => sent = 0
  /\ pc = "awaiting" => sent = 0
  /\ pc = "done" =>
       /\ sent = 1
       /\ answered = req
       /\ IF ~isValid(req.userId) THEN response = InvalidUserId
          ELSE IF reply.kind = "rejected" THEN response = InternalServerError
          ELSE /\ reply.kind = "resolved"
               /\ response.status = 200
               /\ DOMAIN response.body = ReportFields
               /\ DOMAIN response.body.meta =
                    {"totalTradesAnalyzed", "generatedAt"}
  /\ (pc = "awaiting" /\ reply.kind = "resolved") =>
       LET report == reportOf(req.userId, reply.docs, now)
       IN /\ report.status = 200
          /\ DOMAIN report.body = ReportFields

\* a request whose query failed has been answered, by the 500 body
C10_Witness ==
  /\ pc = "done"
  /\ reply.kind = "rejected"
  /\ sent = 1
  /\ response = InternalServerError

\* the stored trades of user u dated at or after instant t
tradesSince(u, t) ==
  [d \in {e \in BagToSet(store) : e.userId = u /\ e.tradeDate >= t} |-> store[d]]

\* the reports that analyse exactly the trades of bag W
reportsOver(userId, W, generatedAt) ==
  {reportOf(userId, <<doc>>, generatedAt) : doc \in facetResults(W)}

C11_WitnessExcluded ==
  /\ Reported
  /\ BagCardinality(store) = 2
  /\ \E d \in BagToSet(store) : d.userId # req.userId
  /\ \E d \in BagToSet(store) :
       d.userId = req.userId /\ d.tradeDate = req.windowStart - 1
  /\ response.body.meta.totalTradesAnalyzed = 0

\* the sum of the field `total` over the buckets of byStrategy
totalOver(byStrategy) ==
  SumOver(1..Len(byStrategy), [i \in 1..Len(byStrategy) |-> byStrategy[i].total])

\* the sum of the field `count` over the buckets of byRisk
countOver(byRisk) ==
  SumOver(1..Len(byRisk), [i \in 1..Len(byRisk) |-> byRisk[i].count])

\* C12: the three views of one request describe one trade set, whatever is
\* inserted or deleted meanwhile: what the store returns has as many
\* perTrade entries as trades are in the window when it runs the query, the
\* totals of the strategy buckets and the counts of the risk buckets sum to
\* that number, and the report carries it as meta.totalTradesAnalyzed with
\* riskAverages counts that sum to it.
C12_NoReadSkew ==
  [][/\ (reply.kind = "pending" /\ reply'.kind = "resolved") =>
          LET n == BagCardinality(tradesSince(req.userId, req.windowStart))
          IN /\ Len(perTradeOf(reply'.docs)) = n
             /\ totalOver(byStrategyOf(reply'.docs)) = n
             /\ countOver(byRiskOf(reply'.docs)) = n
     /\ (pc = "awaiting" /\ pc' = "done" /\ response'.status = 200) =>
          LET n == response'.body.meta.totalTradesAnalyzed
          IN /\ n = Len(perTradeOf(reply.docs))
             /\ n = totalOver(byStrategyOf(reply.docs))
             /\ n = countOver(response'.body.riskAverages)]_vars

\* a report over two trades, sent after one of them was deleted and another
\* trade was inserted: the store no longer holds what the report counts
C12_Witness ==
  /\ Reported
  /\ response.body.meta.totalTradesAnalyzed = 2
  /\ countOver(response.body.riskAverages) = 2
  /\ BagCardinality(window) = 1
  /\ BagCardinality(store) = 2

\* the responses a request for userId received at instant t produces when
\* it runs alone against the store and its query fails (failed) or succeeds
aloneResponses(userId, t, failed) ==
  IF ~isValid(userId) THEN {InvalidUserId}
  ELSE IF failed THEN {InternalServerError}
  ELSE UNION {reportsOver(userId, tradesSince(userId, t - 30 * 24 * 60 * 60),
                          generatedAt) : generatedAt \in t..(Now0 + MaxTicks)}

\* C13: under every interleaving of the steps of two requests, for the same
\* user or for different users, a step of one request changes nothing of
\* the other, and the response of each is one it produces when run alone
\* against the same store at the same instant.
C13_NoInteraction ==
  [][\A k \in Slots :
       /\ (pc'[k] # pc[k] \/ reply'[k] # reply[k]) =>
            \A j \in Slots \ {k} :
              /\ pc'[j] = pc[j] /\ req'[j] = req[j]
              /\ reply'[j] = reply[j] /\ response'[j] = response[j]
       /\ pc'[k] = "done" =>
            response'[k] \in aloneResponses(req'[k].userId, req'[k].receivedAt,
                                            reply'[k].kind = "rejected")]_vars

\* both requests were in flight together and are answered: one for u1
\* received first, one for u2 or again for u1 received a second later, with
\* reports over different trades
C13_Witness ==
  /\ pc = [k \in Slots |-> "done"]
  /\ response[1].status = 200 /\ response[2].status = 200
  /\ req[1].receivedAt < req[2].receivedAt
  /\ response[1].body.meta.generatedAt >= req[2].receivedAt
  /\ response[1].body.meta.totalTradesAnalyzed = 2
  /\ response[2].body.meta.totalTradesAnalyzed = 1

\* C14: no step of a report request changes the trade store, whether the
\* request ends with 400, 200 or 500: the store after the request is the
\* store before it.
C14_StoreUnchanged ==
  [][(pc' # pc \/ req' # req \/ reply' # reply \/ response' # response
        \/ sent' # sent \/ queries' # queries) => store' = store]_vars

\* a report over two trades has been sent and the store holds them
C14_Witness ==
  /\ Reported
  /\ BagCardinality(window) = 2
  /\ response.body.meta.totalTradesAnalyzed = 2
  /\ BagCardinality(store) = 2

\* the bag of the values g[d] over the documents d of bag M
bagOf(M, g) ==
  LET V == {g[d] : d \in BagToSet(M)}
  IN [v \in V |-> SumOver({d \in BagToSet(M) : g[d] = v}, M)]

\* C15: every trade of the window enters the correlation with the score 1
\* for low, 2 for medium, 3 for high and 2 for any other or missing
\* riskLevel, so with a score in {1, 2, 3}; and whatever the riskLevels the
\* request is answered with a report.
C15_RiskScoreTotal ==
  /\ reply.kind = "resolved" =>
       LET perTrade == perTradeOf(reply.docs)
           score == [d \in BagToSet(window) |->
                       IF d.riskLevel = "low" THEN 1
                       ELSE IF d.riskLevel = "medium" THEN 2
                       ELSE IF d.riskLevel = "high" THEN 3
                       ELSE 2]
       IN /\ \A i \in 1..Len(perTrade) : perTrade[i].riskScore \in {1, 2, 3}
          /\ bagOf(window, [d \in BagToSet(window) |-> <<score[d], d.outcome>>])
               = bagOf(SetToBag(1..Len(perTrade)),
                       [i \in 1..Len(perTrade) |->
                          <<perTrade[i].riskScore, perTrade[i].outcome>>])
  /\ (pc = "done" /\ isValid(req.userId)) => response.status = 200

\* a report whose correlation is a number, over a trade with a riskLevel
\* outside the enum, one without riskLevel and a low-risk one
C15_Witness ==
  /\ Reported
  /\ {d.riskLevel : d \in BagToSet(window)} = {"extreme", Missing, "low"}
  /\ response.body.riskOutcomeCorrelation.kind = "number"

C17_OrderedAndStable ==
  [][/\ (pc = "awaiting" /\ pc' = "done" /\ response'.status = 200) =>
          LET u == response'.body.underperformingStrategies
          IN \A i, j \in 1..Len(u) :
               i < j => /\ ~RatioLess(u[j].winRate, u[i].winRate)
                        /\ u[i].strategyId # u[j].strategyId
     /\ (SecondReport /\ sameWindow) =>
          response'.body.underperformingStrategies =
            response.body.underperformingStrategies]_vars

\* the last call made to an adapter
lastCall(C) == C[Len(C)]

\* the access tokens a body carries
BodyTokens == {body.accessToken : body \in SyncBodies} \ {Missing}

\* C18: when getValidToken finds a token stored for (userId, broker) that
\* has expired, adapter.refreshToken is called with the access token of a
\* token stored for the pair (the one stored before the request, or the one
\* the request's body has just stored), and with the empty string only when
\* no token was stored for the pair; when the refresh succeeds, the token
\* returned is stored under the same pair and its access token is the one
\* getValidToken returns.
C18_RefreshWithExpiredToken ==
  [][/\ (sync.pc = "idle" /\ sync'.pc = "refreshing") =>
          /\ lastCall(calls').op = "refreshToken"
          /\ IF getKey(sync'.userId, sync'.broker) \in DOMAIN tokenStore
             THEN lastCall(calls').token \in
                    {getToken(tokenStore, sync'.userId, sync'.broker).accessToken} \cup BodyTokens
             ELSE lastCall(calls').token \in {""} \cup BodyTokens
     /\ (sync.pc = "refreshing" /\ sync'.pc = "fetching") =>
          /\ getToken(tokenStore', sync.userId, sync.broker) \in RefreshedTokens
          /\ sync'.token = getToken(tokenStore', sync.userId, sync.broker).accessToken
          /\ lastCall(calls') = fetchTradesCall(adapterOf(sync), sync'.token)]_vars

\* C19: after registerAdapter(a), whatever the letter case of a.getName(),
\* isBrokerSupported(a.getName()) is true and getAdapter(a.getName())
\* returns a; and after unregisterAdapter(a.getName()) has returned true,
\* isBrokerSupported(a.getName()) is false.
C19_RegisteredAdapterFound ==
  \A a \in Adapters \cup {ZerodhaAdapter} :
    /\ isBrokerSupported(registerAdapter(adapters, a), getName(a))
    /\ getAdapter(registerAdapter(adapters, a), getName(a)) = a
    /\ unregisterAdapterReturns(registerAdapter(adapters, a), getName(a)) =>
         ~isBrokerSupported(unregisterAdapter(registerAdapter(adapters, a), getName(a)), getName(a))

\* the answers with which POST /sync rejects a body
Rejections == {"Missing required fields", "Unsupported broker"}

\* C20: a POST /sync request rejected with 400 for a missing userId or
\* broker, or for an unsupported broker, leaves the token store as it was
\* and makes no adapter call; the token store changes while a request is
\* received only when the body names a user and a supported broker, and
\* the token syncTrades then works with is the one the store holds.
C20_RejectionStoresNothing ==
  [][/\ (sync.pc = "idle" /\ sync'.pc = "done" /\ sync'.status = 400 /\ sync'.error \in Rejections) =>
          /\ tokenStore' = tokenStore
          /\ calls' = calls
     /\ (sync.pc = "idle" /\ sync'.pc # "idle" /\ tokenStore' # tokenStore) =>
          /\ ~(sync'.status = 400 /\ sync'.error \in Rejections)
          /\ ~falsy(sync'.userId) /\ ~falsy(sync'.broker)
          /\ isBrokerSupported(adapters, sync'.broker)
     /\ (sync.pc = "idle" /\ sync'.pc = "fetching") =>
          /\ getToken(tokenStore', sync'.userId, sync'.broker) # Null
          /\ sync'.token = getToken(tokenStore', sync'.userId, sync'.broker).accessToken
          /\ lastCall(calls') = fetchTradesCall(adapterOf(sync'), sync'.token)]_vars

\* a request has been rejected for its broker while tokens are stored and
\* adapter calls have been made
C20_Witness ==
  /\ sync.pc = "done" /\ sync.status = 400 /\ sync.error = "Unsupported broker"
  /\ DOMAIN tokenStore # {}
  /\ calls # <<>>

\* a request's own token has been stored and handed to fetchTrades
C20_WitnessSeeded ==
  /\ sync.pc = "fetching" /\ sync.token \in BodyTokens
  /\ Len(calls) = 1

\* C21: every trade syncTrades returns has a symbol that is not empty and
\* not UNKNOWN, a quantity above 0, a price above 0, a timestamp, and the
\* side BUY or SELL; and the trades returned are the normalized forms of
\* the raw trades that normalize without throwing to a valid trade, each
\* of them once and in the order of the raw trades: a raw trade whose
\* normalization throws is left out and the others are still returned.
C21_ValidTradesInOrder ==
  (sync.pc = "done" /\ sync.status = 200) =>
    /\ \A i \in 1..Len(sync.trades) :
         /\ sync.trades[i].symbol.type # "undefined"
         /\ sync.trades[i].symbol.str \notin {"", "UNKNOWN"}
         /\ ~sync.trades[i].quantity.nan /\ sync.trades[i].quantity.hundredths > 0
         /\ ~sync.trades[i].price.nan /\ sync.trades[i].price.hundredths > 0
         /\ sync.trades[i].timestamp.type # "undefined" /\ sync.trades[i].timestamp.str # ""
         /\ sync.trades[i].side \in {"BUY", "SELL"}
    /\ LET kept == {i \in 1..Len(sync.rawTrades) :
                       /\ "error" \notin DOMAIN normalizeTrade(sync.rawTrades[i], sync.broker)
                       /\ validateNormalizedTrade(normalizeTrade(sync.rawTrades[i], sync.broker))}
       IN /\ Len(sync.trades) = Cardinality(kept)
          /\ \A i \in kept :
               sync.trades[Cardinality({j \in kept : j <= i})] =
                 normalizeTrade(sync.rawTrades[i], sync.broker)

\* the sync has answered 200 with the one valid trade that followed a raw
\* trade whose transaction_type made its normalization throw
C21_Witness ==
  /\ sync.pc = "done" /\ sync.status = 200
  /\ Len(sync.rawTrades) = 2
  /\ sync.rawTrades[1] # Null
  /\ "error" \in DOMAIN normalizeTrade(sync.rawTrades[1], sync.broker)
  /\ toLowerCase(sync.broker) = "zerodha"
  /\ Len(sync.trades) = 1
  /\ sync.trades[1] = normalizeTrade(sync.rawTrades[2], sync.broker)

\* the sync has answered 200 for MetaTrader with a sale whose quantity is
\* the absolute value of its volume
C21_WitnessMetaTrader ==
  /\ sync.pc = "done" /\ sync.status = 200
  /\ toLowerCase(sync.broker) = "metatrader"
  /\ Len(sync.trades) = 1 /\ sync.rawTrades[1] = Null
  /\ sync.trades[1].side = "SELL" /\ sync.trades[1].quantity.hundredths = 300

\* the sync has answered 200 with no trade for a broker normalizeTrade does
\* not know, although raw trades came
C21_WitnessUnknownBroker ==
  /\ sync.pc = "done" /\ sync.status = 200
  /\ sync.broker = "upstox"
  /\ Len(sync.rawTrades) = 2 /\ sync.trades = <<>>

====
